---- MODULE Spec2Model ----
(***************************************************************************)
(* Model of the CouchDB adapter of src/mutent-couchdb.mjs: one call of     *)
(* findEntity or filterEntities, the query dispatch, and the page loops    *)
(* of filterView and filterMango, against a CouchDB collaborator that      *)
(* answers GET doc, POST view / _all_docs and POST _find.                  *)
(*                                                                         *)
(* Document identifiers are the integers 0..NumDocs, listed in CouchDB's   *)
(* collation order; identifier 0 stands for a design document              *)
(* ("_design/..." sorts before alphanumeric identifiers), so the regular   *)
(* expression /^_design/ is the test id = 0.                               *)
(***************************************************************************)
EXTENDS Integers, Sequences, FiniteSets, TLC

\* ------------------------------------------------------------- bounds
NumDocs == 2
MaxKeys == 2
MaxLimit == 3
MaxReadSize == 2
MaxRequests == 5

\* --------------------------------------------------- JavaScript values
\* A JavaScript value used as a number: typeof, and for numbers whether it
\* is an integer, a non-integer (v + 0.5) or Infinity.
Undefined == [type |-> "undefined", kind |-> "na", v |-> 0]
Num(n) == [type |-> "number", kind |-> "int", v |-> n]
Frac(n) == [type |-> "number", kind |-> "frac", v |-> n]
Infinity == [type |-> "number", kind |-> "inf", v |-> 0]
Str == [type |-> "string", kind |-> "na", v |-> 0]

\* a > 0 for a number a
GtZero(a) == a.kind = "inf" \/ (a.kind = "int" /\ a.v > 0) \/ (a.kind = "frac" /\ a.v >= 0)

\* Math.min(readSize, limit) written as readSize alone
MathMinFirst(a, b) == a

\* Math.min of two numbers (integers or Infinity)
MathMin(a, b) ==
  IF a.kind = "inf" THEN b
  ELSE IF b.kind = "inf" THEN a
  ELSE IF a.v <= b.v THEN a ELSE b

\* the loop without limit--
DecrementMissing(a) == a

\* limit-- : Infinity - 1 is Infinity
Decrement(a) == IF a.kind = "inf" THEN a ELSE Num(a.v - 1)

\* the short-page test written with <= instead of <
LengthLessOrEqual(n, a) == a.kind = "inf" \/ n <= a.v

\* n < a for an array length n and a number a
LengthLess(n, a) == a.kind = "inf" \/ n < a.v

\* An optional array field: undefined, an array, or a value that is no array.
NoKeys == [type |-> "undefined", arr |-> <<>>]
KeysOf(s) == [type |-> "array", arr |-> s]
NotAnArray == [type |-> "other", arr |-> <<>>]

\* ------------------------------------------------------------- inputs
Ids == 0..NumDocs
AllIds == [i \in 1..(NumDocs + 1) |-> i - 1]

\* Key lists, repeated keys included. The order of the keys decides only the
\* order of the rows, so the lists are taken in non-decreasing order.
KeyLists ==
  {ks \in UNION {[1..n -> Ids] : n \in 0..MaxKeys} :
     \A j \in 1..(Len(ks) - 1) : ks[j] <= ks[j + 1]}

ReadSizes == {Undefined, Num(0), Frac(1), Str} \cup {Num(n) : n \in 1..MaxReadSize}
Limits == {Undefined, Num(0), Num(-1), Frac(1)} \cup {Num(n) : n \in 1..MaxLimit}
Skips == {Undefined, Num(1)}

\* A query: a string (an identifier), an array of identifiers, undefined, or
\* an object with the fields the adapter reads.
Query(type, id, items, selector, design, view, keys, limit, skip) ==
  [type |-> type, id |-> id, items |-> items, selector |-> selector,
   design |-> design, view |-> view, keys |-> keys, limit |-> limit,
   skip |-> skip]

EmptyObject == Query("object", 0, <<>>, FALSE, FALSE, FALSE, NoKeys, Undefined, Undefined)

StringQueries == {Query("string", id, <<>>, FALSE, FALSE, FALSE, NoKeys, Undefined, Undefined) : id \in Ids}

ArrayQueries == {Query("array", 0, ks, FALSE, FALSE, FALSE, NoKeys, Undefined, Undefined) : ks \in KeyLists}

UndefinedQuery == Query("undefined", 0, <<>>, FALSE, FALSE, FALSE, NoKeys, Undefined, Undefined)

\* view queries without a key list: every combination of design and view
CursorQueries ==
  {Query("object", 0, <<>>, FALSE, d, w, NoKeys, l, s) :
     d \in BOOLEAN, w \in BOOLEAN, l \in Limits, s \in Skips}

\* view queries with a key list, against _all_docs or a named view
KeyedQueries ==
  {Query("object", 0, <<>>, FALSE, d, d, k, l, Undefined) :
     d \in BOOLEAN, k \in {KeysOf(ks) : ks \in KeyLists} \cup {NotAnArray}, l \in Limits}

\* Mango queries, alone or together with view fields
MangoQueries ==
  {Query("object", 0, <<>>, TRUE, d, w, k, l, s) :
     d \in BOOLEAN, w \in BOOLEAN, k \in {NoKeys, KeysOf(<<1>>)},
     l \in Limits, s \in Skips}

Queries ==
  StringQueries \cup ArrayQueries \cup {UndefinedQuery} \cup CursorQueries
    \cup KeyedQueries \cup MangoQueries

\* ------------------------------------------------- module-level helpers
\* The outcome of a function that returns a value or throws.
Return(value) == [error |-> "none", value |-> value]
Throw(message) == [error |-> message, value |-> Undefined]

\* value >= 0 instead of value > 0
isNonNegativeInteger(value) ==
  value.type = "number" /\ value.kind = "int" /\ value.v >= 0

isPositiveInteger(value) ==
  value.type = "number" /\ value.kind = "int" /\ value.v > 0

parseQueryLimit(value) ==
  LET v == IF value = Undefined THEN Infinity ELSE value
  IN IF ~isPositiveInteger(v) /\ v # Infinity
       THEN Throw("TypeError: Invalid query limit")
       ELSE Return(v)

DefaultReadSize == 50

parseReadSize(value) ==
  LET v == IF value = Undefined THEN Num(DefaultReadSize) ELSE value
  IN IF ~isPositiveInteger(v)
       THEN Throw("TypeError: Invalid read size")
       ELSE Return(v)

\* The keys of a Map filled by map.set(key, null) for each key in turn:
\* insertion order, each key once.
RECURSIVE MapSetAll(_, _)
MapSetAll(map, ks) ==
  IF ks = <<>> THEN map
  ELSE IF \E j \in 1..Len(map) : map[j] = Head(ks)
    THEN MapSetAll(map, Tail(ks))
    ELSE MapSetAll(Append(map, Head(ks)), Tail(ks))

\* pushKeys: the Map of the pending keys, or the error thrown.
pushKeys(ks) ==
  IF ks.type # "array" THEN [error |-> "TypeError: View keys must be an array", map |-> <<>>]
  ELSE IF Len(ks.arr) = 0 THEN [error |-> "Error: Expected at least one key", map |-> <<>>]
  ELSE [error |-> "none", map |-> MapSetAll(<<>>, ks.arr)]

\* The loop of pullKeys over map.keys(): a key is moved to arr while arr is
\* shorter than count; the first key met with arr full returns arr. When the
\* iteration runs out of keys the function ends without a return statement,
\* so the caller receives undefined.
RECURSIVE pullKeysLoop(_, _, _)
pullKeysLoop(map, arr, count) ==
  IF map = <<>> THEN [ret |-> NoKeys, map |-> map]
  ELSE IF LengthLess(Len(arr), count)
    THEN pullKeysLoop(Tail(map), Append(arr, Head(map)), count)
    ELSE [ret |-> KeysOf(arr), map |-> map]

pullKeys(map, count) == pullKeysLoop(map, <<>>, count)

\* /^_design/.test(id); the identifier of a row without one is undefined,
\* written -1, and does not match.
IsDesign(id) == id = 0

\* ----------------------------------------------------------- requests
AllDocs == "_all_docs"
NamedView == "_design/d/_view/v"
NoDesignView == "_design/undefined/_view/v"

\* query.view ? `_design/${query.design}/_view/${query.view}` : '_all_docs'
ViewPath(qry) ==
  IF qry.view
    THEN (IF qry.design THEN NamedView ELSE NoDesignView)
    ELSE AllDocs

\* startkey and startkey_docid, set together
StartKey(key, id) == [def |-> TRUE, key |-> key, id |-> id]
NoStartKey == [def |-> FALSE, key |-> 0, id |-> 0]

Body(limit, ks, skip, startkey, bookmark) ==
  [limit |-> limit, keys |-> ks, skip |-> skip, startkey |-> startkey,
   bookmark |-> bookmark]

NoBody == Body(Undefined, NoKeys, Undefined, NoStartKey, Undefined)

\* ------------------------------------------------------- collaborator
Row(key, id, doc) == [key |-> key, id |-> id, doc |-> doc]

Drop(s, n) == SubSeq(s, n + 1, Len(s))
Take(s, n) == SubSeq(s, 1, IF n < Len(s) THEN n ELSE Len(s))
SkipOf(b) == IF b.skip = Undefined THEN 0 ELSE b.skip.v

RECURSIVE KeyRows(_, _, _)
\* rows answered for an explicit key list: _all_docs answers every key, a
\* missing one with an error row that has no id and no doc; a view answers
\* the keys that are in its index.
KeyRows(ks, db, p) ==
  IF ks = <<>> THEN <<>>
  ELSE LET k == Head(ks)
           rest == KeyRows(Tail(ks), db, p)
       IN IF p = AllDocs
            THEN (IF k \in db THEN <<Row(k, k, TRUE)>> ELSE <<Row(k, -1, FALSE)>>) \o rest
            ELSE (IF k \in db /\ ~IsDesign(k) THEN <<Row(k, k, TRUE)>> ELSE <<>>) \o rest

\* rows of the whole index in key order: _all_docs lists every document,
\* design documents included; the view lists the ordinary documents.
IndexRows(db, p) ==
  LET ids == SelectSeq(AllIds, LAMBDA id : id \in db /\ (p = AllDocs \/ ~IsDesign(id)))
  IN [j \in 1..Len(ids) |-> Row(ids[j], ids[j], TRUE)]

\* POST view: keys or startkey, then skip, then limit
ViewRows(db, p, b) ==
  LET all == IF b.keys.type = "array" THEN KeyRows(b.keys.arr, db, p)
             ELSE SelectSeq(IndexRows(db, p),
                            LAMBDA r : ~b.startkey.def \/ r.key > b.startkey.key
                                        \/ (r.key = b.startkey.key /\ r.id >= b.startkey.id))
  IN Take(Drop(all, SkipOf(b)), b.limit.v)

\* POST _find: the documents matching the selector are the ordinary
\* documents of the database; the bookmark is the position reached.
Matching(db) == SelectSeq(AllIds, LAMBDA id : id \in db /\ ~IsDesign(id))

FindFrom(b) == (IF b.bookmark = Undefined THEN 0 ELSE b.bookmark.v) + SkipOf(b)

FindDocs(db, b) == Take(Drop(Matching(db), FindFrom(b)), b.limit.v)

FindBookmark(db, b) == Num(FindFrom(b) + Len(FindDocs(db, b)))

\* -------------------------------------------------------------- state
VARIABLES
  op,        \* the adapter method called: "findEntity", "filterEntities"
             \* or "deleteEntity"
  query,     \* its query argument
  options,   \* ctx.options: [readSize |-> value, purge |-> boolean]
  entity,    \* deleteEntity's entity.target: [id, existed]
  store,     \* identifiers of the documents in the database
  pc,        \* position of the call
  strategy,  \* the method the query was routed to
  arg,       \* the query handed to filterView or filterMango
  keys,      \* filterView's keys: [null |-> TRUE] or the Map of pending keys
  path,      \* filterView's path
  readSize,  \* parsed read size
  limit,     \* remaining limit
  body,      \* the request body, reused from page to page
  response,  \* the last response: [rows, bookmark]
  i,         \* position of the for loop in response.rows / response.docs
  emitted,   \* documents yielded so far
  skipped,   \* number of returned rows that were not yielded
  requests,  \* requests sent to the collaborator so far
  error,     \* the error thrown to the caller, or "none"
  first,     \* findEntity's result: Null or <<id>>
  consumer   \* the caller iterating the sequence: the number of documents it
             \* took and answered by asking for the next, and its early stop

vars == <<op, query, options, entity, store, pc, strategy, arg, keys, path,
          readSize, limit, body, response, i, emitted, skipped, requests,
          error, first, consumer>>

Null == <<>>
NullKeys == [null |-> TRUE, map |-> <<>>]
MapKeys(map) == [null |-> FALSE, map |-> map]
NoResponse == [rows |-> <<>>, bookmark |-> Undefined]

\* entity.target and the document deleteEntity writes
Target(id, existed) == [id |-> id, existed |-> existed]
NoEntity == Target(0, FALSE)
Doc(id, deleted) == [id |-> id, deleted |-> deleted]
NoDoc == Doc(0, FALSE)

\* statusCode of the rejection with which an HTTP request fails
NotFound == 404
HttpFailure(status) == status >= 400

\* A request as the collaborator sees it, with the position of the sequence
\* when it is sent. status 0: no response yet.
Request(kind, p, doc, b) ==
  [kind |-> kind, path |-> p, doc |-> doc, body |-> b,
   emitted |-> Len(emitted), consumed |-> consumer.consumed,
   limit |-> limit, pending |-> keys.map, status |-> 0, rows |-> <<>>]

\* The response to the last request arrives.
Answered(reqs, status, rows) ==
  [reqs EXCEPT ![Len(reqs)] = [@ EXCEPT !.status = status, !.rows = rows]]

Init ==
  /\ store \in SUBSET Ids
  /\ \/ /\ op \in {"findEntity", "filterEntities"}
        /\ query \in Queries
        /\ options \in [readSize : ReadSizes, purge : {FALSE}]
        /\ entity = NoEntity
     \/ /\ op = "deleteEntity"
        /\ query = UndefinedQuery
        /\ options \in [readSize : {Undefined}, purge : BOOLEAN]
        /\ \E id \in Ids : entity = Target(id, id \in store)
  /\ pc = "call"
  /\ strategy = "none"
  /\ arg = EmptyObject
  /\ keys = NullKeys
  /\ path = AllDocs
  /\ readSize = Undefined
  /\ limit = Undefined
  /\ body = NoBody
  /\ response = NoResponse
  /\ i = 0
  /\ emitted = <<>>
  /\ skipped = 0
  /\ requests = <<>>
  /\ error = "none"
  /\ first = Null
  /\ consumer = [consumed |-> 0, abandoned |-> FALSE]

\* ----------------------------------------------------------- dispatch
\* { ...query } without the injected limit
SpreadOnly(qry) ==
  IF qry.type = "object" THEN qry ELSE EmptyObject

\* { ...query, limit: 1 }: the own enumerable properties of query, then
\* limit. The properties of an array are its indices, so the result is an
\* object that is no array and has no keys field.
SpreadLimitOne(qry) ==
  IF qry.type = "object"
    THEN [qry EXCEPT !.limit = Num(1)]
    ELSE [EmptyObject EXCEPT !.limit = Num(1)]

\* The branch a method takes: the method called and its query, or the
\* error thrown.
Route(method, qry) == [method |-> method, arg |-> qry, error |-> "none"]

\* the branches without Array.isArray: an array is handled as an object
filterEntitiesRouteNoArray(qry) ==
  LET qq == IF qry.type = "undefined" THEN EmptyObject ELSE qry
  IN IF qq.type = "string" THEN Route("readDoc", qq)
     ELSE IF qq.selector THEN Route("filterMango", qq)
     ELSE Route("filterView", qq)

\* the view branch tested before the selector branch
filterEntitiesRouteViewFirst(qry) ==
  LET qq == IF qry.type = "undefined" THEN EmptyObject ELSE qry
  IN IF qq.type = "string" THEN Route("readDoc", qq)
     ELSE IF qq.type = "array"
       THEN Route("filterView", [EmptyObject EXCEPT !.keys = KeysOf(qq.items)])
     ELSE IF qq.design \/ qq.view \/ qq.keys # NoKeys THEN Route("filterView", qq)
     ELSE IF qq.selector THEN Route("filterMango", qq)
     ELSE Route("filterView", qq)

filterEntitiesRoute(qry) ==
  LET qq == IF qry.type = "undefined" THEN EmptyObject ELSE qry
  IN IF qq.type = "string" THEN Route("readDoc", qq)
     ELSE IF qq.type = "array"
       THEN Route("filterView", [EmptyObject EXCEPT !.keys = KeysOf(qq.items)])
     ELSE IF qq.selector THEN Route("filterMango", qq)
     ELSE Route("filterView", qq)

\* findEntity: a string is read directly, anything else is filtered with
\* limit 1.
findEntityRoute(qry) ==
  IF qry.type = "string" THEN Route("readDoc", qry)
  ELSE filterEntitiesRoute(SpreadLimitOne(qry))

\* deleteEntity with the purge option tested after the write
deleteEntityRoutePurgeIgnored(opts) ==
  Route("writeDoc", EmptyObject)

\* deleteEntity: the purge option throws, anything else writes the tombstone.
deleteEntityRoute(opts) ==
  IF opts.purge
    THEN [Route("error", EmptyObject) EXCEPT !.error = "Error: Not implemented yet"]
    ELSE Route("writeDoc", EmptyObject)

\* The call enters findEntity, filterEntities or deleteEntity and takes its
\* branch.
Call ==
  /\ pc = "call"
  /\ LET r == IF op = "findEntity" THEN findEntityRoute(query)
              ELSE IF op = "filterEntities" THEN filterEntitiesRoute(query)
              ELSE deleteEntityRoute(options)
     IN /\ strategy' = r.method
        /\ arg' = r.arg
        /\ pc' = r.method
        /\ error' = r.error
  /\ UNCHANGED <<op, query, options, entity, store, keys, path, readSize, limit,
                 body, response, i, emitted, skipped, requests, first, consumer>>

\* { ...entity.target, _deleted: true }
Tombstone(target) == Doc(target.id, TRUE)

\* writeDoc of the tombstone: one insert. The write succeeds or is rejected
\* (a conflict, a server error); a stored tombstone removes the document
\* from the database.
writeDoc ==
  /\ pc = "writeDoc"
  /\ Len(requests) < MaxRequests
  /\ \E status \in {201, 409, 500} :
       /\ requests' = Answered(
            Append(requests, Request("insert", "doc", Tombstone(entity), NoBody)),
            status, <<>>)
       /\ IF HttpFailure(status)
            THEN /\ error' = "HttpError"
                 /\ pc' = "error"
                 /\ store' = store
            ELSE /\ error' = error
                 /\ pc' = "done"
                 /\ store' = store \ {entity.id}
  /\ UNCHANGED <<op, query, options, entity, strategy, arg, keys, path, readSize,
                 limit, body, response, i, emitted, skipped, first, consumer>>

\* The consumer of a yielded document: filterEntities hands it to the
\* caller; the for await loop of findEntity keeps the first and throws on a
\* second one.
Yielded(doc) ==
  /\ consumer' = [consumer EXCEPT !.consumed = @ + 1]
  /\ IF op = "findEntity"
       THEN IF first # Null
         THEN /\ error' = "Error: Expected one iteration at most"
              /\ first' = first
         ELSE /\ first' = <<doc>>
              /\ error' = error
       ELSE UNCHANGED <<first, error>>

\* the catch block with every rejection swallowed
readDocResultSwallowAll(status, id) ==
  IF ~HttpFailure(status) THEN [error |-> "none", doc |-> <<id>>]
  ELSE [error |-> "none", doc |-> Null]

\* What readDoc gives for the answer to GET /db/id: the document, null for
\* statusCode 404, the rejection for any other failure.
readDocResult(status, id) ==
  IF ~HttpFailure(status) THEN [error |-> "none", doc |-> <<id>>]
  ELSE IF status # NotFound THEN [error |-> "HttpError", doc |-> Null]
  ELSE [error |-> "none", doc |-> Null]

\* The statuses the collaborator can answer GET /db/id with.
GetStatuses(db, id) == (IF id \in db THEN {200} ELSE {NotFound}) \cup {401, 500}

\* readDoc called by findEntity (the document or null is returned) or by
\* filterEntities (the document, if any, is yielded).
readDoc ==
  /\ pc = "readDoc"
  /\ Len(requests) < MaxRequests
  /\ \E status \in GetStatuses(store, arg.id) :
       LET r == readDocResult(status, arg.id)
       IN /\ requests' = Answered(
               Append(requests, Request("get", "doc", Doc(arg.id, FALSE), NoBody)),
               status, <<>>)
          /\ error' = r.error
          /\ IF r.error # "none"
               THEN /\ pc' = "error"
                    /\ UNCHANGED <<emitted, first>>
               ELSE IF op = "findEntity"
                 THEN /\ first' = r.doc
                      /\ emitted' = emitted
                      /\ pc' = "done"
                 ELSE /\ first' = first
                      /\ emitted' = emitted \o r.doc
                      /\ pc' = IF r.doc # Null THEN "readYield" ELSE "done"
  /\ UNCHANGED <<op, query, options, entity, store, strategy, arg, keys, path,
                 readSize, limit, body, response, i, skipped, consumer>>

\* The caller takes the document of filterEntities(string) and asks for the
\* next: the sequence is over.
ReadResume ==
  /\ pc = "readYield"
  /\ Yielded(emitted[Len(emitted)])
  /\ pc' = "done"
  /\ UNCHANGED <<op, query, options, entity, store, strategy, arg, keys, path,
                 readSize, limit, body, response, i, emitted, skipped, requests>>

\* the early stop recorded while the sequence stays suspended at its yield
AbandonIgnored ==
  /\ pc \in {"readYield", "viewYield", "mangoYield"}
  /\ op = "filterEntities"
  /\ consumer' = [consumer EXCEPT !.abandoned = TRUE]
  /\ UNCHANGED <<op, query, options, entity, store, pc, strategy, arg, keys, path,
                 readSize, limit, body, response, i, emitted, skipped, requests,
                 error, first>>

\* The caller of filterEntities stops early: return() on the sequence
\* suspended at a yield completes it there.
Abandon ==
  /\ pc \in {"readYield", "viewYield", "mangoYield"}
  /\ op = "filterEntities"
  /\ consumer' = [consumer EXCEPT !.abandoned = TRUE]
  /\ pc' = "returned"
  /\ UNCHANGED <<op, query, options, entity, store, strategy, arg, keys, path,
                 readSize, limit, body, response, i, emitted, skipped, requests,
                 error, first>>

\* --------------------------------------------------------- filterView
\* The statements of filterView before its loop: keys, path, readSize,
\* limit and the first body. A throw ends the call with that error.
filterViewSetup(qry, opts) ==
  LET pushed == IF qry.keys = NoKeys
                  THEN [error |-> "none", map |-> <<>>]
                  ELSE pushKeys(qry.keys)
      ks == IF qry.keys = NoKeys THEN NullKeys ELSE MapKeys(pushed.map)
      rs == parseReadSize(opts.readSize)
      lim == parseQueryLimit(qry.limit)
      pageLimit == MathMin(rs.value, lim.value)
      pulled == pullKeys(ks.map, pageLimit)
  IN IF pushed.error # "none" THEN [error |-> pushed.error]
     ELSE IF rs.error # "none" THEN [error |-> rs.error]
     ELSE IF lim.error # "none" THEN [error |-> lim.error]
     ELSE [error |-> "none",
           path |-> ViewPath(qry),
           readSize |-> rs.value,
           limit |-> lim.value,
           keys |-> IF ks.null THEN ks ELSE MapKeys(pulled.map),
           body |-> IF ks.null
                      THEN Body(pageLimit, NoKeys, qry.skip, NoStartKey, Undefined)
                      ELSE Body(pageLimit, pulled.ret, qry.skip, NoStartKey, Undefined)]

filterViewStart ==
  /\ pc = "filterView"
  /\ LET s == filterViewSetup(arg, options)
     IN IF s.error # "none"
          THEN /\ error' = s.error
               /\ pc' = "error"
               /\ UNCHANGED <<keys, path, readSize, limit, body>>
          ELSE /\ keys' = s.keys
               /\ path' = s.path
               /\ readSize' = s.readSize
               /\ limit' = s.limit
               /\ body' = s.body
               /\ error' = error
               /\ pc' = IF GtZero(s.limit) THEN "viewRequest" ELSE "done"
  /\ UNCHANGED <<op, query, options, entity, store, strategy, arg, response, i,
                 emitted, skipped, requests, first, consumer>>

\* this.raw.server.relax({ db, path, method: 'POST', body }): the request
\* is sent and the sequence awaits the response.
ViewRequest ==
  /\ pc = "viewRequest"
  /\ Len(requests) < MaxRequests
  /\ requests' = Append(requests, Request("view", path, NoDoc, body))
  /\ pc' = "viewAwait"
  /\ UNCHANGED <<op, query, options, entity, store, strategy, arg, keys, path,
                 readSize, limit, body, response, i, emitted, skipped, error,
                 first, consumer>>

\* The statuses the collaborator can answer a view request with: there is
\* no design document "undefined".
ViewStatuses(p) == (IF p = NoDesignView THEN {NotFound} ELSE {200}) \cup {500}

\* the rejection of the awaited request caught and the request sent again
ViewResponseRetry ==
  /\ pc = "viewAwait"
  /\ \E status \in ViewStatuses(path) :
       LET rows == IF HttpFailure(status) THEN <<>> ELSE ViewRows(store, path, body)
       IN /\ requests' = Answered(requests, status, rows)
          /\ IF HttpFailure(status)
               THEN /\ pc' = "viewRequest"
                    /\ UNCHANGED <<response, i, error>>
               ELSE /\ response' = [rows |-> rows, bookmark |-> Undefined]
                    /\ i' = 1
                    /\ pc' = "viewRows"
                    /\ error' = error
  /\ UNCHANGED <<op, query, options, entity, store, strategy, arg, keys, path,
                 readSize, limit, body, emitted, skipped, first, consumer>>

\* The awaited response arrives: its rows, or the rejection, which nothing
\* in filterView catches.
ViewResponse ==
  /\ pc = "viewAwait"
  /\ \E status \in ViewStatuses(path) :
       LET rows == IF HttpFailure(status) THEN <<>> ELSE ViewRows(store, path, body)
       IN /\ requests' = Answered(requests, status, rows)
          /\ IF HttpFailure(status)
               THEN /\ error' = "HttpError"
                    /\ pc' = "error"
                    /\ UNCHANGED <<response, i>>
               ELSE /\ response' = [rows |-> rows, bookmark |-> Undefined]
                    /\ i' = 1
                    /\ pc' = "viewRows"
                    /\ error' = error
  /\ UNCHANGED <<op, query, options, entity, store, strategy, arg, keys, path,
                 readSize, limit, body, emitted, skipped, first, consumer>>

\* every row with a document yielded, design documents included
ViewRowEmitsDesign(row) == row.doc

\* row.doc is yielded unless the row is a design document or has no doc
ViewRowEmits(row) == ~IsDesign(row.id) /\ row.doc

\* The end of a turn of the for loop: without keys the row becomes the
\* start of the next page.
AfterRow(b, ks, row) ==
  IF ks.null THEN [b EXCEPT !.startkey = StartKey(row.key, row.id)] ELSE b

\* One turn of the for loop over response.rows, up to its yield or, for a
\* row that is not yielded, to its end.
ViewRow ==
  /\ pc = "viewRows"
  /\ i <= Len(response.rows)
  /\ LET row == response.rows[i]
     IN IF ViewRowEmits(row)
          THEN /\ emitted' = Append(emitted, row.id)
               /\ pc' = "viewYield"
               /\ UNCHANGED <<skipped, body, i>>
          ELSE /\ skipped' = skipped + 1
               /\ body' = AfterRow(body, keys, row)
               /\ i' = i + 1
               /\ UNCHANGED <<emitted, pc>>
  /\ UNCHANGED <<op, query, options, entity, store, strategy, arg, keys, path,
                 readSize, limit, response, requests, error, first, consumer>>

\* The consumer takes the yielded document and asks for the next: the turn
\* of the for loop continues after its yield.
ViewResume ==
  /\ pc = "viewYield"
  /\ Yielded(emitted[Len(emitted)])
  /\ IF error' # "none"
       THEN /\ pc' = "error"
            /\ UNCHANGED <<limit, body, i>>
       ELSE /\ pc' = "viewRows"
            /\ limit' = Decrement(limit)
            /\ body' = AfterRow(body, keys, response.rows[i])
            /\ i' = i + 1
  /\ UNCHANGED <<op, query, options, entity, store, strategy, arg, keys, path,
                 readSize, response, emitted, skipped, requests>>

\* the next page's body with the skip of the first page kept
NextViewBodyKeepSkip(b, ks, rs, lim) ==
  LET pageLimit == MathMin(rs, lim)
      pulled == pullKeys(ks.map, pageLimit)
  IN IF ks.null
       THEN [keys |-> ks, body |-> [b EXCEPT !.limit = pageLimit]]
       ELSE [keys |-> MapKeys(pulled.map),
             body |-> [b EXCEPT !.limit = pageLimit, !.keys = pulled.ret,
                                !.skip = Undefined]]

\* The next page's body: limit, then the next keys or skip = 1.
NextViewBody(b, ks, rs, lim) ==
  LET pageLimit == MathMin(rs, lim)
      pulled == pullKeys(ks.map, pageLimit)
  IN IF ks.null
       THEN [keys |-> ks, body |-> [b EXCEPT !.limit = pageLimit, !.skip = Num(1)]]
       ELSE [keys |-> MapKeys(pulled.map),
             body |-> [b EXCEPT !.limit = pageLimit, !.keys = pulled.ret,
                                !.skip = Undefined]]

\* the page ended while rows of the response are still to be handled
ViewPageEndEarly ==
  /\ pc = "viewRows"
  /\ IF LengthLess(Len(response.rows), body.limit)
       THEN /\ pc' = "done"
            /\ UNCHANGED <<keys, body>>
       ELSE LET n == NextViewBody(body, keys, readSize, limit)
            IN /\ keys' = n.keys
               /\ body' = n.body
               /\ pc' = IF GtZero(limit) THEN "viewRequest" ELSE "done"
  /\ UNCHANGED <<op, query, options, entity, store, strategy, arg, path, readSize,
                 limit, response, i, emitted, skipped, requests, error, first,
                 consumer>>

\* After the last row: a short page ends the loop, otherwise the body is
\* advanced and the loop condition limit > 0 decides.
ViewPageEnd ==
  /\ pc = "viewRows"
  /\ i > Len(response.rows)
  /\ IF LengthLess(Len(response.rows), body.limit)
       THEN /\ pc' = "done"
            /\ UNCHANGED <<keys, body>>
       ELSE LET n == NextViewBody(body, keys, readSize, limit)
            IN /\ keys' = n.keys
               /\ body' = n.body
               /\ pc' = IF GtZero(limit) THEN "viewRequest" ELSE "done"
  /\ UNCHANGED <<op, query, options, entity, store, strategy, arg, path, readSize,
                 limit, response, i, emitted, skipped, requests, error, first,
                 consumer>>

\* -------------------------------------------------------- filterMango
\* The statements of filterMango before its loop.
filterMangoSetup(qry, opts) ==
  LET rs == parseReadSize(opts.readSize)
      lim == parseQueryLimit(qry.limit)
  IN IF rs.error # "none" THEN [error |-> rs.error]
     ELSE IF lim.error # "none" THEN [error |-> lim.error]
     ELSE [error |-> "none",
           readSize |-> rs.value,
           limit |-> lim.value,
           body |-> Body(MathMin(rs.value, lim.value), NoKeys, qry.skip,
                         NoStartKey, Undefined)]

filterMangoStart ==
  /\ pc = "filterMango"
  /\ LET s == filterMangoSetup(arg, options)
     IN IF s.error # "none"
          THEN /\ error' = s.error
               /\ pc' = "error"
               /\ UNCHANGED <<readSize, limit, body>>
          ELSE /\ readSize' = s.readSize
               /\ limit' = s.limit
               /\ body' = s.body
               /\ error' = error
               /\ pc' = IF GtZero(s.limit) THEN "mangoRequest" ELSE "done"
  /\ UNCHANGED <<op, query, options, entity, store, strategy, arg, keys, path,
                 response, i, emitted, skipped, requests, first, consumer>>

\* this.raw.find(body): the request is sent and the sequence awaits the
\* response.
MangoRequest ==
  /\ pc = "mangoRequest"
  /\ Len(requests) < MaxRequests
  /\ requests' = Append(requests, Request("find", "_find", NoDoc, body))
  /\ pc' = "mangoAwait"
  /\ UNCHANGED <<op, query, options, entity, store, strategy, arg, keys, path,
                 readSize, limit, body, response, i, emitted, skipped, error,
                 first, consumer>>

\* The awaited response arrives: its docs and bookmark, or the rejection,
\* which nothing in filterMango catches.
MangoResponse ==
  /\ pc = "mangoAwait"
  /\ \E status \in {200, 500} :
       LET docs == IF HttpFailure(status) THEN <<>> ELSE FindDocs(store, body)
       IN /\ requests' = Answered(requests, status, docs)
          /\ IF HttpFailure(status)
               THEN /\ error' = "HttpError"
                    /\ pc' = "error"
                    /\ UNCHANGED <<response, i>>
               ELSE /\ response' = [rows |-> docs,
                                    bookmark |-> FindBookmark(store, body)]
                    /\ i' = 1
                    /\ pc' = "mangoDocs"
                    /\ error' = error
  /\ UNCHANGED <<op, query, options, entity, store, strategy, arg, keys, path,
                 readSize, limit, body, emitted, skipped, first, consumer>>

\* One turn of the for loop over response.docs, up to its yield: every
\* document the collaborator returns is an object, so each is yielded.
MangoDoc ==
  /\ pc = "mangoDocs"
  /\ i <= Len(response.rows)
  /\ emitted' = Append(emitted, response.rows[i])
  /\ pc' = "mangoYield"
  /\ UNCHANGED <<op, query, options, entity, store, strategy, arg, keys, path,
                 readSize, limit, body, response, i, skipped, requests, error,
                 first, consumer>>

\* The consumer takes the yielded document and asks for the next.
MangoResume ==
  /\ pc = "mangoYield"
  /\ Yielded(emitted[Len(emitted)])
  /\ IF error' # "none"
       THEN /\ pc' = "error"
            /\ UNCHANGED <<limit, i>>
       ELSE /\ pc' = "mangoDocs"
            /\ limit' = Decrement(limit)
            /\ i' = i + 1
  /\ UNCHANGED <<op, query, options, entity, store, strategy, arg, keys, path,
                 readSize, body, response, emitted, skipped, requests>>

\* the next body with the first bookmark received kept for every later page
NextMangoBodyFirstBookmark(b, resp, rs, lim) ==
  [b EXCEPT !.bookmark = IF b.bookmark = Undefined THEN resp.bookmark ELSE @,
            !.limit = MathMin(rs, lim), !.skip = Num(0)]

\* the next body with the limit of the first page kept
NextMangoBodyStaleLimit(b, resp, rs, lim) ==
  [b EXCEPT !.bookmark = resp.bookmark, !.skip = Num(0)]

\* The next page's body: bookmark, limit and skip = 0.
NextMangoBody(b, resp, rs, lim) ==
  [b EXCEPT !.bookmark = resp.bookmark, !.limit = MathMin(rs, lim), !.skip = Num(0)]

MangoPageEnd ==
  /\ pc = "mangoDocs"
  /\ i > Len(response.rows)
  /\ IF LengthLess(Len(response.rows), body.limit)
       THEN /\ pc' = "done"
            /\ body' = body
       ELSE /\ body' = NextMangoBody(body, response, readSize, limit)
            /\ pc' = IF GtZero(limit) THEN "mangoRequest" ELSE "done"
  /\ UNCHANGED <<op, query, options, entity, store, strategy, arg, keys, path,
                 readSize, limit, response, i, emitted, skipped, requests, error,
                 first, consumer>>

\* ------------------------------------------------------ specification
Next ==
  \/ Call
  \/ writeDoc
  \/ readDoc
  \/ ReadResume
  \/ Abandon
  \/ filterViewStart
  \/ ViewRequest
  \/ ViewResponse
  \/ ViewRow
  \/ ViewResume
  \/ ViewPageEnd
  \/ filterMangoStart
  \/ MangoRequest
  \/ MangoResponse
  \/ MangoDoc
  \/ MangoResume
  \/ MangoPageEnd

Spec == Init /\ [][Next]_vars

\* -------------------------------------------------------------- claims
\* The call runs one of the two paginated sequences.
Paginated == strategy \in {"filterView", "filterMango"}

\* The sequence runs with a finite query limit L = arg.limit.v.
FiniteLimit == isPositiveInteger(arg.limit)

\* ceil(a / b) for positive b
Ceil(a, b) == (a + b - 1) \div b

\* C1: a paginated sequence (filterView or filterMango) run with query limit
\* L never emits more than L documents, whatever the read size and whatever
\* design rows, rows without a document and full or short pages occur.
C1_EmittedWithinLimit ==
  (Paginated /\ FiniteLimit) => Len(emitted) <= arg.limit.v

\* A sequence that used several pages, skipped a row and stopped with
\* exactly L documents emitted.
C1_Witness ==
  /\ op = "filterEntities"
  /\ pc = "done"
  /\ Paginated
  /\ FiniteLimit
  /\ Len(emitted) = arg.limit.v
  /\ skipped > 0
  /\ Len(requests) >= 2

\* C2 as stated: with a finite limit L and read size R at most ceil(L / R)
\* page requests are sent, also when rows are skipped.
C2_RequestsWithinCeil ==
  (Paginated /\ FiniteLimit /\ readSize # Undefined)
    => Len(requests) <= Ceil(arg.limit.v, readSize.v)

\* C2 amended: at most ceil(L / R) page requests plus one per returned row
\* that was not emitted (a design row or a row without a document) are
\* sent; ceil(L / R) bounds the requests when every returned row is emitted.
C2_RequestsWithinCeilPlusSkipped ==
  (Paginated /\ FiniteLimit /\ readSize # Undefined)
    => Len(requests) <= Ceil(arg.limit.v, readSize.v) + skipped

\* A finished sequence whose skipped rows each cost one more request.
C2_Witness ==
  /\ pc = "done"
  /\ Paginated
  /\ FiniteLimit
  /\ skipped >= 1
  /\ Len(requests) >= 3
  /\ Len(requests) = Ceil(arg.limit.v, readSize.v) + skipped

\* C3 as stated: an id-list query emits exactly the listed identifiers that
\* exist and are not design documents, and no document that is not listed.
Listed == {query.items[j] : j \in 1..Len(query.items)}

C3_IdListEmitsListed ==
  (op = "filterEntities" /\ query.type = "array" /\ pc = "done")
    => /\ Len(emitted) = Cardinality({k \in Listed : k \in store /\ ~IsDesign(k)})
       /\ \A j \in 1..Len(emitted) : emitted[j] \in Listed

\* The documents an object query selects, in order, when no limit applies:
\* the selector's matches after skip, or the view's rows after skip without
\* the rows that are not emitted.
Selects ==
  strategy = "filterMango" \/ (strategy = "filterView" /\ arg.keys = NoKeys)

FindMatches ==
  IF strategy = "filterMango"
    THEN Drop(Matching(store), SkipOf(arg))
    ELSE LET rows == SelectSeq(Drop(IndexRows(store, ViewPath(arg)), SkipOf(arg)),
                               ViewRowEmits)
         IN [j \in 1..Len(rows) |-> rows[j].id]

AllRequests(kind) == \A j \in 1..Len(requests) : requests[j].kind = kind

\* C5: filterEntities takes exactly one strategy by precedence: a string is
\* read by id, otherwise an array goes to _all_docs with the array as key
\* list, otherwise a selector goes to _find, otherwise the query goes to a
\* view; every request of the call is of the kind of that strategy.
C5_OneStrategyByPrecedence ==
  (op = "filterEntities" /\ pc # "call")
    => /\ query.type = "string" => (strategy = "readDoc" /\ AllRequests("get"))
       /\ query.type = "array"
            => /\ strategy = "filterView"
               /\ arg.keys = KeysOf(query.items)
               /\ \A j \in 1..Len(requests) :
                    requests[j].kind = "view" /\ requests[j].path = AllDocs
       /\ (query.type = "object" /\ query.selector)
            => (strategy = "filterMango" /\ arg = query /\ AllRequests("find"))
       /\ (query.type = "object" /\ ~query.selector)
            => (strategy = "filterView" /\ arg = query /\ AllRequests("view"))
       /\ query.type = "undefined"
            => (strategy = "filterView" /\ arg = EmptyObject /\ AllRequests("view"))

\* An id-list query that finished after several _all_docs requests.
C5_Witness ==
  /\ op = "filterEntities"
  /\ pc = "done"
  /\ query.type = "array"
  /\ Len(requests) >= 2

\* C6 as stated: a view query targets the named view exactly when it carries
\* both design and view, and _all_docs in every other case.
C6_NamedViewIffBoth ==
  strategy = "filterView"
    => \A j \in 1..Len(requests) :
         requests[j].path = IF arg.design /\ arg.view THEN NamedView ELSE AllDocs

\* A query object that matches the selector rule and a view rule.
Ambiguous(qry) ==
  qry.type = "object" /\ qry.selector /\ (qry.design \/ qry.view \/ qry.keys # NoKeys)

\* C7 as stated: an ambiguous query raises a classification error before any
\* request; no strategy is picked for it.
C7_AmbiguousRaises ==
  Ambiguous(query)
    => (strategy = "none" /\ requests = <<>> /\ pc \in {"call", "error"})

\* C7 amended: a query object with a selector and view fields raises no
\* classification error; the selector wins, the query is routed to Mango
\* and only _find requests are sent, the view fields being ignored.
C7_AmbiguousGoesToMango ==
  (Ambiguous(query) /\ pc # "call")
    => /\ strategy = "filterMango"
       /\ AllRequests("find")
       /\ error \in {"none", "HttpError", "TypeError: Invalid read size",
                     "TypeError: Invalid query limit"}

\* An ambiguous query answered by _find.
C7_Witness ==
  /\ op = "filterEntities"
  /\ Ambiguous(query)
  /\ pc = "done"
  /\ Len(emitted) >= 1
  /\ requests[1].kind = "find"

\* The limit field of a page request is min(readSize, remaining limit),
\* remaining being the query limit minus the documents emitted before the
\* request: at least 1, at most readSize, at most remaining, and equal to
\* one of the two.
PageLimitIsMin(r) ==
  LET lim == r.body.limit
      remaining == arg.limit.v - r.emitted
  IN /\ lim.type = "number" /\ lim.kind = "int"
     /\ lim.v >= 1
     /\ lim.v <= readSize.v
     /\ FiniteLimit => lim.v <= remaining
     /\ lim.v = readSize.v \/ (FiniteLimit /\ lim.v = remaining)

\* C8: every page request of filterView and filterMango carries
\* limit = min(readSize, remainingLimit), never more than readSize, never
\* more than the remaining limit, never zero or negative.
C8_PageLimitIsMin ==
  Paginated => \A j \in 1..Len(requests) : PageLimitIsMin(requests[j])

\* A Mango sequence whose second page asked for the remaining limit, less
\* than the read size.
C8_Witness ==
  /\ strategy = "filterMango"
  /\ FiniteLimit
  /\ Len(requests) >= 2
  /\ requests[1].body.limit = readSize
  /\ requests[2].body.limit.v = arg.limit.v - requests[2].emitted
  /\ requests[2].body.limit.v < readSize.v

BadReadSize == options.readSize \notin {Undefined} \cup {Num(n) : n \in 1..MaxReadSize}
BadLimit == query.limit \notin {Undefined} \cup {Num(n) : n \in 1..MaxLimit}

\* C9 as stated: for every query shape filterEntities accepts, an invalid
\* read size or query limit raises an error before any request is sent and
\* never gives a completed sequence.
C9_InvalidRaisesBeforeRequest ==
  (op = "filterEntities" /\ (BadReadSize \/ BadLimit))
    => (requests = <<>> /\ pc # "done")

\* C9 amended: for the paginated shapes (array, selector and view queries)
\* an invalid read size or query limit raises an error before any request
\* and never gives a sequence; the error is the validation TypeError, or the
\* key-list error when the key list is empty or no array, which is checked
\* first. A string query is read by id without validating the read size.
C9_InvalidRaisesWhenPaginated ==
  (op = "filterEntities" /\ query.type # "string" /\ (BadReadSize \/ BadLimit))
    => /\ requests = <<>>
       /\ emitted = <<>>
       /\ pc \in {"call", "filterView", "filterMango", "error"}
       /\ pc = "error"
            => \/ error = "TypeError: Invalid read size" /\ BadReadSize
               \/ error = "TypeError: Invalid query limit" /\ BadLimit /\ ~BadReadSize
               \/ /\ error = "Error: Expected at least one key"
                  /\ arg.keys = KeysOf(<<>>)
               \/ /\ error = "TypeError: View keys must be an array"
                  /\ arg.keys = NotAnArray

\* A Mango query with limit 0 ended with the validation error.
C9_Witness ==
  /\ op = "filterEntities"
  /\ strategy = "filterMango"
  /\ query.limit = Num(0)
  /\ pc = "error"
  /\ error = "TypeError: Invalid query limit"
  /\ requests = <<>>

\* A Mango query without limit and skip, read size 1, two matching documents.
MangoTwoDocs ==
  /\ op = "filterEntities"
  /\ query.type = "object"
  /\ query.selector
  /\ query.limit = Undefined
  /\ query.skip = Undefined
  /\ options.readSize = Num(1)
  /\ Len(Matching(store)) = 2

\* C10 as stated: such a query is answered with exactly two _find requests
\* and two documents.
C10_TwoRequestsTwoDocs ==
  (MangoTwoDocs /\ pc = "done") => (Len(requests) = 2 /\ Len(emitted) = 2)

\* C10 amended: such a query emits exactly the two matching documents and
\* sends exactly three _find requests; the second page is full, so a third
\* request is sent and its empty page ends the sequence.
C10_ThreeRequestsTwoDocs ==
  (MangoTwoDocs /\ pc = "done")
    => /\ Len(requests) = 3
       /\ AllRequests("find")
       /\ emitted = Matching(store)
       /\ response.rows = <<>>

\* The sequence of such a query has completed.
C10_Witness ==
  /\ MangoTwoDocs
  /\ pc = "done"
  /\ Len(requests) = 3
  /\ Len(emitted) = 2

\* C11: a direct get-by-id (readDoc, reached by findEntity(string) and
\* filterEntities(string)) answered with statusCode 404 raises nothing:
\* findEntity returns null and filterEntities yields nothing; a failure with
\* any other status ends the call with that error and never with a null or
\* empty result.
C11_NotFoundIsNullOthersPropagate ==
  (strategy = "readDoc" /\ pc # "readDoc") =>
    /\ Len(requests) = 1
    /\ requests[1].kind = "get"
    /\ requests[1].status = NotFound =>
         /\ pc = "done"
         /\ error = "none"
         /\ first = Null
         /\ emitted = <<>>
    /\ (HttpFailure(requests[1].status) /\ requests[1].status # NotFound) =>
         /\ pc = "error"
         /\ error = "HttpError"
         /\ first = Null
         /\ emitted = <<>>

\* filterEntities(string) for a document that is not stored: the GET was
\* answered 404 and the sequence completed empty.
C11_Witness ==
  /\ op = "filterEntities"
  /\ strategy = "readDoc"
  /\ pc = "done"
  /\ Len(requests) = 1
  /\ requests[1].status = NotFound
  /\ emitted = <<>>
  /\ error = "none"

\* The rows of page j the for loop has reached: every row of an earlier
\* page, and of the last page the rows up to the loop's position.
Handled(j) ==
  IF j < Len(requests) THEN requests[j].rows
  ELSE Take(requests[j].rows, IF pc \in {"viewYield", "returned"} THEN i ELSE i - 1)

\* The documents emitted since request j was sent and before the next one.
EmittedOfPage(j) ==
  SubSeq(emitted, requests[j].emitted + 1,
         IF j < Len(requests) THEN requests[j + 1].emitted ELSE Len(emitted))

\* The identifiers of the rows that carry a document and are no design
\* document, in the order of the rows.
OrdinaryDocs(rows) ==
  LET kept == SelectSeq(rows, LAMBDA r : r.doc /\ ~IsDesign(r.id))
  IN [k \in 1..Len(kept) |-> kept[k].id]

\* C12: in every filterView search (id-list queries included) no design
\* document is emitted; of the rows of each page, those that carry a
\* document and are no design document are emitted once each, in order,
\* and nothing else is; the remaining limit has gone down by one for each
\* emitted document the consumer took and by nothing for any other row.
C12_DesignRowsNeitherEmittedNorCounted ==
  strategy = "filterView" =>
    /\ \A k \in 1..Len(emitted) : ~IsDesign(emitted[k])
    /\ \A j \in 1..Len(requests) : EmittedOfPage(j) = OrdinaryDocs(Handled(j))
    /\ (FiniteLimit /\ limit # Undefined) =>
         limit.v = arg.limit.v - consumer.consumed
    /\ Len(emitted) - consumer.consumed = (IF pc \in {"viewYield", "returned"} THEN 1 ELSE 0)

\* An _all_docs search that met a design row, did not emit it, emitted the
\* document after it and completed.
C12_Witness ==
  /\ strategy = "filterView"
  /\ pc = "done"
  /\ Len(requests) >= 2
  /\ \E j \in 1..Len(requests) : \E k \in 1..Len(requests[j].rows) :
       IsDesign(requests[j].rows[k].id) /\ requests[j].rows[k].doc
  /\ Len(emitted) >= 1
  /\ FiniteLimit
  /\ limit.v = arg.limit.v - Len(emitted)

KeyListMode == strategy = "filterView" /\ arg.keys.type = "array"

\* C14: in key-list mode every page request carries a non-empty key list
\* whose keys come from the query's list, and a request is followed by
\* another one only if keys were still pending when it was sent.
C14_EveryKeyedRequestCarriesKeys ==
  KeyListMode =>
    /\ \A j \in 1..Len(requests) :
         /\ requests[j].body.keys.type = "array"
         /\ Len(requests[j].body.keys.arr) >= 1
         /\ \A k \in 1..Len(requests[j].body.keys.arr) :
              \E m \in 1..Len(arg.keys.arr) :
                requests[j].body.keys.arr[k] = arg.keys.arr[m]
    /\ \A j \in 1..(Len(requests) - 1) : requests[j].pending # <<>>

\* The state of a cursor when it sends a request: the body, the remaining
\* limit and the pending keys. Nothing else decides what the cursor does
\* with the response.
CursorState(r) == <<r.body, r.limit, r.pending>>

\* C15: every sequence of the view cursor and of the Mango cursor is
\* finite. The database does not change during a sequence and the cursor is
\* deterministic, so a cursor that sends two requests from the same state
\* sends that request for ever; the sequence completes if and only if no
\* two of its page requests are sent from the same cursor state.
C15_NoPageRequestRepeats ==
  Paginated =>
    \A j \in 1..Len(requests) : \A k \in 1..Len(requests) :
      (j < k /\ ~HttpFailure(requests[j].status))
        => CursorState(requests[j]) # CursorState(requests[k])

\* The call is a view search without an explicit key list, given to
\* filterEntities.
StartKeyMode ==
  op = "filterEntities" /\ strategy = "filterView" /\ arg.keys = NoKeys

\* The documents of the view's rows after the query's skip, without the
\* design rows, in view order. The rows of a view have distinct (key, id)
\* pairs.
ViewDocs == OrdinaryDocs(Drop(IndexRows(store, path), SkipOf(arg)))

\* s is the beginning of t
IsPrefix(s, t) == Len(s) <= Len(t) /\ s = SubSeq(t, 1, Len(s))

\* C16: in start-key cursor mode the documents emitted across all pages
\* are, at every moment, a beginning of the view's non-design documents in
\* view order, so none is emitted twice and none is skipped at a page
\* boundary; the first row of each further page is the row right after the
\* last row of the page before; and the completed sequence is exactly those
\* documents truncated to the limit, for every readSize.
C16_PagesAreTheViewInOrder ==
  (StartKeyMode /\ requests # <<>>) =>
    /\ IsPrefix(emitted, ViewDocs)
    /\ \A j \in 1..(Len(requests) - 1) :
         LET prev == requests[j].rows
             next == requests[j + 1].rows
             all == IndexRows(store, path)
         IN next # <<>> =>
              \E m \in 1..(Len(all) - 1) :
                all[m] = prev[Len(prev)] /\ all[m + 1] = next[1]
    /\ pc = "done" =>
         emitted = (IF FiniteLimit THEN Take(ViewDocs, arg.limit.v) ELSE ViewDocs)

\* A completed search of three pages over _all_docs with a design row, read
\* one row at a time, that emitted every ordinary document.
C16_Witness ==
  /\ StartKeyMode
  /\ pc = "done"
  /\ Len(requests) >= 3
  /\ skipped >= 1
  /\ Len(emitted) = NumDocs
  /\ emitted = ViewDocs

\* C17: findEntity with a non-string query runs the strategy filterEntities
\* selects for that query, on that query with its limit replaced by 1: the
\* same method is called with the same key list, selector and view; and the
\* result of an id-list query is null or one of the listed documents.
C17_FindRunsTheFilterStrategy ==
  (op = "findEntity" /\ query.type # "string" /\ pc # "call") =>
    /\ strategy = filterEntitiesRoute(query).method
    /\ arg = [filterEntitiesRoute(query).arg EXCEPT !.limit = Num(1)]
    /\ (query.type = "array" /\ pc = "done" /\ first # Null) => first[1] \in Listed

\* The page requests that have been sent and not answered yet.
InFlight == {j \in 1..Len(requests) : requests[j].status = 0}

\* The number of documents a page's response gives to emit.
EmittingCount(r) ==
  IF r.kind = "find" THEN Len(r.rows) ELSE Len(OrdinaryDocs(r.rows))

\* C18: within one paginated sequence at most one page request is in
\* flight, it is the last one sent, and the sequence does nothing else
\* while it waits; a page request that is followed by another has been
\* answered, and when the next one was sent every document of its page had
\* been emitted and every emitted document had been taken by the consumer.
C18_OnePageInFlightAfterPageConsumed ==
  Paginated =>
    /\ Cardinality(InFlight) <= 1
    /\ \A j \in InFlight :
         /\ j = Len(requests)
         /\ pc \in {"viewAwait", "mangoAwait"}
    /\ \A j \in 1..(Len(requests) - 1) :
         /\ requests[j].status # 0
         /\ ~HttpFailure(requests[j].status)
         /\ requests[j + 1].emitted = requests[j].emitted + EmittingCount(requests[j])
         /\ requests[j + 1].consumed = requests[j + 1].emitted

\* The second page request is in flight after the consumer took the two
\* documents of the first page.
C18_Witness ==
  /\ Paginated
  /\ Len(requests) = 2
  /\ InFlight = {2}
  /\ EmittingCount(requests[1]) = 2
  /\ requests[2].consumed = 2

\* C19: once the consumer has abandoned a paginated sequence no page
\* request is sent any more: no step taken after the early stop, and not
\* the early stop itself, adds a request, and no request is in flight when
\* the consumer stops; wherever in a page the consumer stops.
C19_NoRequestAfterAbandon ==
  [][consumer.abandoned' => (requests' = requests /\ InFlight = {})]_vars

\* The consumer stopped at the first document of a page of two, with
\* documents left in the view: one request was sent and no other follows.
C19_Witness ==
  /\ Paginated
  /\ consumer.abandoned
  /\ pc = "returned"
  /\ Len(requests) = 1
  /\ i = 1
  /\ Len(response.rows) = 2
  /\ GtZero(Decrement(limit))

\* C20: a page request of a paginated sequence that fails ends the
\* sequence with that error: it is the last request sent (no retry, no
\* further page), the call has ended with the HTTP error, and nothing has
\* been emitted or handed to the consumer since the request was sent, so
\* the documents of the earlier pages are not emitted again.
C20_FailedPageEndsSequence ==
  Paginated =>
    \A j \in 1..Len(requests) :
      HttpFailure(requests[j].status) =>
        /\ j = Len(requests)
        /\ pc = "error"
        /\ error = "HttpError"
        /\ Len(emitted) = requests[j].emitted
        /\ consumer.consumed = requests[j].consumed

\* The second page request failed after the first page's documents were
\* emitted.
C20_Witness ==
  /\ Paginated
  /\ op = "filterEntities"
  /\ pc = "error"
  /\ error = "HttpError"
  /\ Len(requests) = 2
  /\ HttpFailure(requests[2].status)
  /\ Len(emitted) >= 1

\* C21: in the Mango cursor the first _find request carries no bookmark and
\* the query's skip; every later request carries the bookmark of the
\* response to the request right before it (not the one an earlier request
\* carried) and skip 0; and while a later request is in flight its bookmark
\* is the one of the last response received.
C21_BookmarkOfPreviousResponse ==
  strategy = "filterMango" =>
    /\ \A j \in 1..Len(requests) :
         /\ requests[j].kind = "find"
         /\ j = 1 =>
              /\ requests[j].body.bookmark = Undefined
              /\ requests[j].body.skip = arg.skip
         /\ j > 1 =>
              /\ requests[j].body.bookmark # Undefined
              /\ requests[j].body.bookmark = FindBookmark(store, requests[j - 1].body)
              /\ requests[j].body.bookmark # requests[j - 1].body.bookmark
              /\ requests[j].body.skip = Num(0)
    /\ (pc = "mangoAwait" /\ Len(requests) > 1) =>
         requests[Len(requests)].body.bookmark = response.bookmark

\* The third _find request of a sequence is in flight, carrying the
\* bookmark of the second response.
C21_Witness ==
  /\ strategy = "filterMango"
  /\ pc = "mangoAwait"
  /\ Len(requests) = 3
  /\ requests[1].body.bookmark = Undefined
  /\ requests[2].body.bookmark # Undefined
  /\ requests[3].body.bookmark = response.bookmark
  /\ requests[3].body.bookmark # requests[2].body.bookmark

====
